---- MODULE Spec2Model ----
(***************************************************************************)
(* Model of server.py: the photo gateway's provider registry, request      *)
(* parameter builder, provider hooks, cache layer, fetch orchestrator and  *)
(* the /picture/<provider> route.                                          *)
(*                                                                         *)
(* Python values are records [t: type, v: text], so that the str "1920"    *)
(* and the int 1920 stay different values while formatting (f-string) maps *)
(* both to the same text.  A dict is the sequence of its <<key, value>>    *)
(* items in insertion order, keys distinct.  Every request is served by a  *)
(* worker of its own; a worker's frame keeps the locals of its call and    *)
(* what the call has done (GETs sent, statuses received, whether it        *)
(* stored).                                                                *)
(***************************************************************************)
EXTENDS Integers, Sequences, FiniteSets, TLC

VARIABLES
    ENABLE_PHOTO_CACHE, \* the global cache toggle (read once from the environment)
    photo_cache,        \* cache key -> the tuple (bytes, mime type)
    cache_lock,         \* the worker holding cache_lock, or NoWorker
    pc,                 \* each request worker's position in picture/fetch_photo
    request,            \* each worker's current request: provider and query args
    frame,              \* each worker's locals and what it has done so far
    call,               \* unit harness: the function under test and its arguments
    ret                 \* unit harness: the value it returned

vars == <<ENABLE_PHOTO_CACHE, photo_cache, cache_lock, pc, request, frame,
          call, ret>>

-----------------------------------------------------------------------------
(* Bounds *)

\* request workers (one thread per inbound request)
NumWorkers == 2
\* items of a dict handed to a function under test
MaxLen == 3

-----------------------------------------------------------------------------
(* Python values *)

None == [t |-> "NoneType"]
S(text) == [t |-> "str", v |-> text]
I(text) == [t |-> "int", v |-> text]
\* the tuple (photo_data, mime_type)
Pair(photo_data, mime_type) == [t |-> "tuple", v |-> <<photo_data, mime_type>>]

Truthy_EmptyBytes(x) ==
    CASE x.t = "NoneType" -> FALSE
      [] x.t = "str" -> x.v # ""
      [] x.t = "int" -> x.v # "0"
      [] x.t = "tuple" -> x.v[1] # ""
      [] x.t = "dict" -> TRUE

\* bool(x): None is false, a str is true unless empty, an int unless zero, a
\* tuple unless it has no elements; the registry's config dicts hold keys
Truthy(x) ==
    CASE x.t = "NoneType" -> FALSE
      [] x.t = "str" -> x.v # ""
      [] x.t = "int" -> x.v # "0"
      [] x.t = "tuple" -> Len(x.v) # 0
      [] x.t = "dict" -> TRUE

\* f"{x}"
Fmt(x) == IF x = None THEN "None" ELSE x.v

\* x or y
Or(x, y) == IF Truthy(x) THEN x ELSE y

-----------------------------------------------------------------------------
(* dict *)

EmptyDict == <<>>

Keys(d) == {d[i][1] : i \in DOMAIN d}

Has(d, k) == \E i \in DOMAIN d : d[i][1] = k

\* d.get(k, default)
Get(d, k, default) ==
    IF Has(d, k) THEN d[CHOOSE i \in DOMAIN d : d[i][1] = k][2] ELSE default

\* d[k] = v: an existing key keeps its position, a new key is appended
Put(d, k, v) ==
    IF Has(d, k)
    THEN [i \in DOMAIN d |-> IF d[i][1] = k THEN <<k, v>> ELSE d[i]]
    ELSE Append(d, <<k, v>>)

\* d.update(o): o's items are put in o's order
RECURSIVE Update(_, _)
Update(d, o) ==
    IF o = <<>> THEN d ELSE Update(Put(d, Head(o)[1], Head(o)[2]), Tail(o))

\* d.items() as a set: set(d.items())
Items(d) == {d[i] : i \in DOMAIN d}

\* all sequences of n distinct keys
RECURSIVE KeyOrders(_, _)
KeyOrders(keys, n) ==
    IF n = 0 THEN {<<>>}
    ELSE UNION {{Append(s, k) : k \in keys \ {s[i] : i \in DOMAIN s}} :
                  s \in KeyOrders(keys, n - 1)}

\* all dicts of exactly n items over the given keys and values
DictsOfLen(keys, vals, n) ==
    {[i \in 1..n |-> <<ks[i], vs[i]>>] :
        ks \in KeyOrders(keys, n), vs \in [1..n -> vals]}

-----------------------------------------------------------------------------
(* Provider registry *)

_get_provider_configs_PicsumW800 ==
    [unsplash |->
        [t |-> "dict", api_url |-> "https://api.unsplash.com/photos/random",
         body_params |-> <<<<"orientation", S("landscape")>>,
                           <<"w", I("1920")>>, <<"h", I("1080")>>>>,
         pre |-> "_unsplash_pre", post |-> "_unsplash_post"],
     lorem_picsum |->
        [t |-> "dict", api_url |-> "https://picsum.photos/1920/1080",
         body_params |-> <<<<"w", I("800")>>, <<"h", I("1080")>>>>,
         pre |-> "_lorem_picsum_pre", post |-> "_lorem_picsum_post"]]

_get_provider_configs ==
    [unsplash |->
        [t |-> "dict", api_url |-> "https://api.unsplash.com/photos/random",
         body_params |-> <<<<"orientation", S("landscape")>>,
                           <<"w", I("1920")>>, <<"h", I("1080")>>>>,
         pre |-> "_unsplash_pre", post |-> "_unsplash_post"],
     lorem_picsum |->
        [t |-> "dict", api_url |-> "https://picsum.photos/1920/1080",
         body_params |-> <<<<"w", I("1920")>>, <<"h", I("1080")>>>>,
         pre |-> "_lorem_picsum_pre", post |-> "_lorem_picsum_post"]]

Lookup_Fallback(provider) ==
    IF provider \in DOMAIN _get_provider_configs
    THEN _get_provider_configs[provider] ELSE _get_provider_configs["unsplash"]

Lookup_NoPicsum(provider) ==
    IF provider = "unsplash" THEN _get_provider_configs[provider] ELSE None

\* _get_provider_configs().get(provider)
Lookup(provider) ==
    IF provider \in DOMAIN _get_provider_configs
    THEN _get_provider_configs[provider] ELSE None

-----------------------------------------------------------------------------
(* Request parameter builder *)

_build_request_params_ThemeFirst(provider_cfg, overrides) ==
    LET theme == Get(overrides, "theme", None)
        params == IF Truthy(theme)
                  THEN Put(provider_cfg.body_params, "query", theme)
                  ELSE provider_cfg.body_params
    IN  Update(params, overrides)

_build_request_params(provider_cfg, overrides) ==
    LET params == Update(provider_cfg.body_params, overrides)
        theme == Get(overrides, "theme", None)
    IN  IF Truthy(theme) THEN Put(params, "query", theme) ELSE params

-----------------------------------------------------------------------------
(* Provider hooks *)

_unsplash_pre(url, params) == [url |-> url, params |-> params]

_lorem_picsum_pre_KeepAll(url, params) ==
    LET w == Get(params, "w", I("1920"))
        h == Get(params, "h", I("1080"))
        ext == IF Has(params, "webp") THEN ".webp" ELSE ""
    IN  [url |-> "https://picsum.photos/" \o Fmt(w) \o "/" \o Fmt(h) \o ext,
         params |-> params]

_lorem_picsum_pre(url, params) ==
    LET w == Get(params, "w", I("1920"))
        h == Get(params, "h", I("1080"))
        ext == IF Has(params, "webp") THEN ".webp" ELSE ""
        grayscale_present == Has(params, "grayscale")
        blur_present == Has(params, "blur")
        blur_val == Get(params, "blur", None)
        final_url == "https://picsum.photos/" \o Fmt(w) \o "/" \o Fmt(h) \o ext
        q1 == IF grayscale_present
              THEN Put(EmptyDict, "grayscale", S("")) ELSE EmptyDict
        query_params == IF blur_present
                        THEN Put(q1, "blur", Or(blur_val, S(""))) ELSE q1
    IN  [url |-> final_url, params |-> query_params]

\* provider_cfg["pre"](provider_cfg["api_url"], params.copy())
PreHook(provider_cfg, params) ==
    IF provider_cfg.pre = "_lorem_picsum_pre"
    THEN _lorem_picsum_pre(provider_cfg.api_url, params)
    ELSE _unsplash_pre(provider_cfg.api_url, params)

-----------------------------------------------------------------------------
(* Cache layer: the key and the map read/write done under cache_lock *)

CacheKey_Ordered(provider, overrides) == <<provider, overrides>>

CacheKey_Merged(provider, overrides) ==
    <<provider,
      {<<p[1], Fmt(p[2])>> :
          p \in Items(_build_request_params(_get_provider_configs[provider],
                                            overrides))}>>

\* (provider, frozenset(overrides.items()))
CacheKey(provider, overrides) == <<provider, Items(overrides)>>

Bypass_Never == FALSE

\* if not ENABLE_PHOTO_CACHE: return
Bypass == ~ENABLE_PHOTO_CACHE

_get_from_cache_Absent(cache, provider, overrides) == None

\* photo_cache.get(cache_key)
_get_from_cache(cache, provider, overrides) ==
    IF Bypass THEN None
    ELSE IF CacheKey(provider, overrides) \in DOMAIN cache
         THEN cache[CacheKey(provider, overrides)] ELSE None

_store_in_cache_Replace(cache, provider, overrides, value) ==
    IF Bypass THEN cache
    ELSE [k \in {CacheKey(provider, overrides)} |-> value]

_store_in_cache_KeepFirst(cache, provider, overrides, value) ==
    IF Bypass \/ CacheKey(provider, overrides) \in DOMAIN cache THEN cache
    ELSE [k \in DOMAIN cache \cup {CacheKey(provider, overrides)} |->
            IF k = CacheKey(provider, overrides) THEN value ELSE cache[k]]

\* photo_cache[cache_key] = value
_store_in_cache(cache, provider, overrides, value) ==
    IF Bypass THEN cache
    ELSE [k \in DOMAIN cache \cup {CacheKey(provider, overrides)} |->
            IF k = CacheKey(provider, overrides) THEN value ELSE cache[k]]

EmptyCache == [k \in {} |-> None]

-----------------------------------------------------------------------------
(* The transport: what requests.get and raise_for_status can produce *)

\* requests.get raises one of these (both are requests.RequestException)
TransportErrors == {"ConnectionError", "Timeout"}

\* bodies of the JSON API: a document with urls.full, a document without it,
\* and a body that is not JSON
JsonFull == "{urls: {full: https://images.unsplash.com/photo-1}}"
JsonNoFull == "{id: photo-1}"
NotJson == "<html>"

Response(status_code, content, content_type) ==
    [status_code |-> status_code, content |-> content,
     content_type |-> content_type]

\* the responses a GET of an image url can end with: an image with its type,
\* an empty body without a Content-Type header, 304 Not Modified (a 3xx
\* status that requests does not follow; it has no body), and 404
ImageResponses ==
    {Response(200, "PNG", S("image/png")),
     Response(200, "", None),
     Response(304, "", None),
     Response(404, "Not Found", S("text/plain"))}

\* the responses a GET of the JSON API can end with
JsonResponses ==
    {Response(200, JsonFull, S("application/json")),
     Response(200, JsonNoFull, S("application/json")),
     Response(200, NotJson, S("text/html")),
     Response(304, "", None),
     Response(404, "Not Found", S("text/plain"))}

\* the responses the primary GET of a provider can end with
ApiResponses(provider_cfg) ==
    IF provider_cfg.post = "_unsplash_post" THEN JsonResponses ELSE ImageResponses

raise_for_status_Only5xx(status_code) ==
    500 <= status_code /\ status_code < 600

\* Response.raise_for_status(): HTTPError for 4xx and 5xx
raise_for_status(status_code) ==
    (400 <= status_code /\ status_code < 500)
        \/ (500 <= status_code /\ status_code < 600)

\* resp.headers.get("Content-Type", "image/jpeg")
MimeOf(resp) ==
    IF resp.content_type = None THEN "image/jpeg" ELSE resp.content_type.v

\* resp.json()['urls']['full']: the exception it raises, "" when it yields a url
JsonFullError(resp) ==
    CASE resp.content = JsonFull -> ""
      [] resp.content = JsonNoFull -> "KeyError"
      [] OTHER -> "JSONDecodeError"

\* what `except requests.RequestException` catches; the JSONDecodeError of
\* resp.json() derives from RequestException (requests 2.27 and later)
RequestExceptions == TransportErrors \cup {"HTTPError", "JSONDecodeError"}

-----------------------------------------------------------------------------
(* The route and the orchestrator, one worker per request *)

Workers == 1..NumWorkers
NoWorker == 0

Providers == {"unsplash", "lorem_picsum", "flickr"}

\* request.args.to_dict(): query strings of the requests sent to the route
QueryArgs ==
    {EmptyDict,
     <<<<"w", S("1920")>>>>,
     <<<<"provider", S("unsplash")>>>>}

\* pre_arg: the params argument the pre-hook was called with (None: it has
\* not been called); read_at: how many map writes to the call's key had
\* completed when the call read the map (-1: it has not read it); wrote_at:
\* the position of the call's own map write among the map writes to its key
\* (0: it has not written)
NoFrame ==
    [params |-> EmptyDict, cached |-> None, gets |-> <<>>, primary |-> 0,
     secondary |-> 0, post_called |-> FALSE, stored |-> FALSE,
     value |-> None, entered |-> FALSE, read_at |-> -1, wrote_at |-> 0,
     pre_arg |-> None,
     error |-> "", cause |-> "", status |-> 0, body |-> "", mimetype |-> ""]

\* the except clauses of picture
picture_status(error) ==
    CASE error = "" -> 200
      [] error = "ValueError" -> 400
      [] error = "RuntimeError" -> 502
      [] OTHER -> 500

\* the message of the exception fetch_photo raises
Message(error, provider) ==
    CASE error = "ValueError" -> "Unknown provider: " \o provider
      [] error = "RuntimeError" -> "Failed to fetch photo from " \o provider
      [] OTHER -> error

\* picture's response to an exception of class error
Raised(w, f, error, cause) ==
    [f EXCEPT
        !.error = error, !.cause = cause, !.status = picture_status(error),
        !.body = IF picture_status(error) = 500 THEN "Internal server error"
                 ELSE Message(error, request[w].provider),
        !.mimetype = "application/json"]

\* picture's response to the pair fetch_photo returns
Returned(f, pair) ==
    [f EXCEPT !.status = 200, !.body = pair.v[1], !.mimetype = pair.v[2]]

\* what fetch_photo's except clause makes of an exception raised in its try
Wrap_All(exc) == "RuntimeError"

Wrap_None(exc) == exc

Wrap(exc) == IF exc \in RequestExceptions THEN "RuntimeError" ELSE exc

Init ==
    /\ ENABLE_PHOTO_CACHE \in BOOLEAN
    /\ photo_cache = EmptyCache
    /\ cache_lock = NoWorker
    /\ pc = [w \in Workers |-> "idle"]
    /\ request = [w \in Workers |-> [provider |-> "", overrides |-> EmptyDict]]
    /\ frame = [w \in Workers |-> NoFrame]
    /\ call = [fn |-> "none"]
    /\ ret = <<>>

\* the map writes to worker w's key completed so far
WritesDone(w) ==
    Cardinality({o \in Workers :
        /\ frame[o].stored
        /\ request[o].provider = request[w].provider
        /\ Items(request[o].overrides) = Items(request[w].overrides)})

Release_Held(w) == w

\* leaving `with cache_lock:` releases the lock
Release(w) == NoWorker

Quiet(w) == \A o \in Workers \ {w} : pc[o] \in {"idle", "done"}

\* workers are numbered in the order their requests arrive
NextToArrive(w) == pc[w] = "idle" /\ \A o \in Workers : o < w => pc[o] # "idle"

\* picture: a request arrives; fetch_photo(provider, **overrides) is called
Picture(w) ==
    /\ NextToArrive(w)
    /\ \E provider \in Providers, overrides \in QueryArgs :
        /\ request' = [request EXCEPT ![w] =
                         [provider |-> provider, overrides |-> overrides]]
        /\ IF Has(overrides, "provider")
           THEN \* TypeError: got multiple values for argument 'provider'
                /\ frame' = [frame EXCEPT ![w] =
                       [NoFrame EXCEPT
                          !.error = "TypeError", !.status = picture_status("TypeError"),
                          !.body = "Internal server error",
                          !.mimetype = "application/json"]]
                /\ pc' = [pc EXCEPT ![w] = "done"]
           ELSE /\ frame' = [frame EXCEPT ![w] =
                       [NoFrame EXCEPT !.entered = TRUE]]
                /\ pc' = [pc EXCEPT ![w] = "fetch_photo"]
    /\ UNCHANGED <<ENABLE_PHOTO_CACHE, photo_cache, cache_lock, call, ret>>

\* fetch_photo: provider lookup and parameter building
FetchPhoto(w) ==
    /\ pc[w] = "fetch_photo"
    /\ LET provider_cfg == Lookup(request[w].provider) IN
        IF ~Truthy(provider_cfg)
        THEN /\ frame' = [frame EXCEPT ![w] = Raised(w, frame[w], "ValueError", "")]
             /\ pc' = [pc EXCEPT ![w] = "done"]
        ELSE /\ frame' = [frame EXCEPT ![w].params =
                    _build_request_params(provider_cfg, request[w].overrides)]
             /\ pc' = [pc EXCEPT ![w] = "get_cache"]
    /\ UNCHANGED <<ENABLE_PHOTO_CACHE, photo_cache, cache_lock, request, call, ret>>

\* _get_from_cache up to acquiring cache_lock
GetFromCache(w) ==
    /\ pc[w] = "get_cache"
    /\ IF Bypass
       THEN /\ frame' = [frame EXCEPT ![w].cached = None]
            /\ pc' = [pc EXCEPT ![w] = "dispatch"]
            /\ UNCHANGED cache_lock
       ELSE /\ cache_lock = NoWorker
            /\ cache_lock' = w
            /\ pc' = [pc EXCEPT ![w] = "cache_read"]
            /\ UNCHANGED frame
    /\ UNCHANGED <<ENABLE_PHOTO_CACHE, photo_cache, request, call, ret>>

\* the map read under cache_lock, and the release
CacheRead(w) ==
    /\ pc[w] = "cache_read"
    /\ frame' = [frame EXCEPT ![w] = [@ EXCEPT
          !.cached = _get_from_cache(photo_cache, request[w].provider,
                                     request[w].overrides),
          !.read_at = WritesDone(w)]]
    /\ cache_lock' = Release(w)
    /\ pc' = [pc EXCEPT ![w] = "dispatch"]
    /\ UNCHANGED <<ENABLE_PHOTO_CACHE, photo_cache, request, call, ret>>

HookParams_Raw(w) == request[w].overrides

\* the params argument fetch_photo hands to _fetch_from_provider, which hands
\* a copy of it to the pre-hook
HookParams(w) == frame[w].params

\* if cached: return cached; else pre-hook and the primary requests.get
Dispatch(w) ==
    /\ pc[w] = "dispatch"
    /\ IF Truthy(frame[w].cached)
       THEN /\ frame' = [frame EXCEPT ![w] =
                   Returned([frame[w] EXCEPT !.value = frame[w].cached],
                            frame[w].cached)]
            /\ pc' = [pc EXCEPT ![w] = "done"]
       ELSE LET pre == PreHook(Lookup(request[w].provider), HookParams(w)) IN
            /\ frame' = [frame EXCEPT ![w] = [@ EXCEPT
                   !.pre_arg = [t |-> "dict", v |-> HookParams(w)],
                   !.gets = Append(@, pre)]]
            /\ pc' = [pc EXCEPT ![w] = "primary"]
    /\ UNCHANGED <<ENABLE_PHOTO_CACHE, photo_cache, cache_lock, request, call, ret>>

\* the primary GET fails in the transport
PrimaryError(w) ==
    /\ pc[w] = "primary"
    /\ \E exc \in TransportErrors :
        frame' = [frame EXCEPT ![w] = Raised(w, frame[w], Wrap(exc), exc)]
    /\ pc' = [pc EXCEPT ![w] = "done"]
    /\ UNCHANGED <<ENABLE_PHOTO_CACHE, photo_cache, cache_lock, request, call, ret>>

\* the primary GET ends with a response: raise_for_status, then the post-hook
PrimaryResponse(w) ==
    /\ pc[w] = "primary"
    /\ LET provider_cfg == Lookup(request[w].provider) IN
       \E resp \in ApiResponses(provider_cfg) :
         LET f == [frame[w] EXCEPT !.primary = resp.status_code]
             g == [f EXCEPT !.post_called = TRUE]
         IN
         IF raise_for_status(resp.status_code)
         THEN /\ frame' = [frame EXCEPT ![w] =
                     Raised(w, f, Wrap("HTTPError"), "HTTPError")]
              /\ pc' = [pc EXCEPT ![w] = "done"]
         ELSE IF provider_cfg.post = "_lorem_picsum_post"
         THEN /\ frame' = [frame EXCEPT ![w] =
                     [g EXCEPT !.value = Pair(resp.content, MimeOf(resp))]]
              /\ pc' = [pc EXCEPT ![w] = "store"]
         ELSE IF JsonFullError(resp) # ""
         THEN /\ frame' = [frame EXCEPT ![w] =
                     Raised(w, g, Wrap(JsonFullError(resp)), JsonFullError(resp))]
              /\ pc' = [pc EXCEPT ![w] = "done"]
         ELSE /\ frame' = [frame EXCEPT ![w] =
                     [g EXCEPT !.gets = Append(@,
                        [url |-> "https://images.unsplash.com/photo-1",
                         params |-> EmptyDict])]]
              /\ pc' = [pc EXCEPT ![w] = "secondary"]
    /\ UNCHANGED <<ENABLE_PHOTO_CACHE, photo_cache, cache_lock, request, call, ret>>

\* the secondary GET of _unsplash_post fails in the transport
SecondaryError(w) ==
    /\ pc[w] = "secondary"
    /\ \E exc \in TransportErrors :
        frame' = [frame EXCEPT ![w] = Raised(w, frame[w], Wrap(exc), exc)]
    /\ pc' = [pc EXCEPT ![w] = "done"]
    /\ UNCHANGED <<ENABLE_PHOTO_CACHE, photo_cache, cache_lock, request, call, ret>>

\* the secondary GET ends with a response: raise_for_status, content and type
SecondaryResponse(w) ==
    /\ pc[w] = "secondary"
    /\ \E img_resp \in ImageResponses :
         LET f == [frame[w] EXCEPT !.secondary = img_resp.status_code] IN
         IF raise_for_status(img_resp.status_code)
         THEN /\ frame' = [frame EXCEPT ![w] =
                     Raised(w, f, Wrap("HTTPError"), "HTTPError")]
              /\ pc' = [pc EXCEPT ![w] = "done"]
         ELSE /\ frame' = [frame EXCEPT ![w] =
                     [f EXCEPT !.value = Pair(img_resp.content, MimeOf(img_resp))]]
              /\ pc' = [pc EXCEPT ![w] = "store"]
    /\ UNCHANGED <<ENABLE_PHOTO_CACHE, photo_cache, cache_lock, request, call, ret>>

\* _store_in_cache up to acquiring cache_lock; with the cache off, the return
StoreInCache(w) ==
    /\ pc[w] = "store"
    /\ IF Bypass
       THEN /\ frame' = [frame EXCEPT ![w] = Returned(frame[w], frame[w].value)]
            /\ pc' = [pc EXCEPT ![w] = "done"]
            /\ UNCHANGED cache_lock
       ELSE /\ cache_lock = NoWorker
            /\ cache_lock' = w
            /\ pc' = [pc EXCEPT ![w] = "cache_write"]
            /\ UNCHANGED frame
    /\ UNCHANGED <<ENABLE_PHOTO_CACHE, photo_cache, request, call, ret>>

\* the map write under cache_lock, the release, and fetch_photo's return
CacheWrite(w) ==
    /\ pc[w] = "cache_write"
    /\ photo_cache' = _store_in_cache(photo_cache, request[w].provider,
                                      request[w].overrides, frame[w].value)
    /\ cache_lock' = Release(w)
    /\ frame' = [frame EXCEPT ![w] =
          Returned([frame[w] EXCEPT !.stored = TRUE,
                                    !.wrote_at = WritesDone(w) + 1],
                   frame[w].value)]
    /\ pc' = [pc EXCEPT ![w] = "done"]
    /\ UNCHANGED <<ENABLE_PHOTO_CACHE, request, call, ret>>

Step(w) ==
    \/ FetchPhoto(w)
    \/ GetFromCache(w)
    \/ CacheRead(w)
    \/ Dispatch(w)
    \/ PrimaryError(w)
    \/ PrimaryResponse(w)
    \/ SecondaryError(w)
    \/ SecondaryResponse(w)
    \/ StoreInCache(w)
    \/ CacheWrite(w)

\* request workers run in parallel
Next == \E w \in Workers : Picture(w) \/ Step(w)

Spec == Init /\ [][Next]_vars

\* every worker is a thread of its own that the scheduler keeps running, and
\* every requests.get ends in a response or an exception (timeout=10)
FairSpec == Spec /\ \A w \in Workers : WF_vars(Step(w))

\* requests arrive one after the other: none is accepted while one is running
SeqNext == \E w \in Workers : (Quiet(w) /\ Picture(w)) \/ Step(w)

SeqSpec == Init /\ [][SeqNext]_vars

-----------------------------------------------------------------------------
(* Unit harness: one call of a function on arguments drawn from bounded sets *)

BuildKeys == {"theme", "query", "w"}
BuildVals == {S(""), S("nature"), S("cats")}

PreKeys == {"w", "h", "webp", "grayscale", "blur", "theme"}
PreVals == {S(""), S("800"), S("600"), I("0")}

SlotKeys == {"a", "b"}
SlotVals == {S("1"), I("1"), S("2")}

\* the calls under test: _build_request_params(cfg, overrides),
\* _lorem_picsum_pre(url, params), _store_in_cache(provider, overrides,
\* value) followed by _get_from_cache(provider2, overrides2), and
\* _lorem_picsum_pre on the built params of a set of overrides followed by
\* _lorem_picsum_pre on the overrides themselves
UnitInit ==
    /\ ENABLE_PHOTO_CACHE \in BOOLEAN
    /\ photo_cache = EmptyCache
    /\ cache_lock = NoWorker
    /\ pc = [w \in Workers |-> "idle"]
    /\ request = [w \in Workers |-> [provider |-> "", overrides |-> EmptyDict]]
    /\ frame = [w \in Workers |-> NoFrame]
    /\ \/ \E p \in DOMAIN _get_provider_configs, m \in 0..MaxLen :
            \E o \in DictsOfLen(BuildKeys, BuildVals, m) :
                call = [fn |-> "_build_request_params", provider |-> p,
                        overrides |-> o]
       \/ \E m \in 0..MaxLen :
            \E d \in DictsOfLen(PreKeys, PreVals, m) :
                call = [fn |-> "_lorem_picsum_pre", params |-> d]
       \/ \E m \in 0..MaxLen :
            \E o \in DictsOfLen(PreKeys, PreVals, m) :
                call = [fn |-> "picsum_paths", overrides |-> o]
       \/ \E p1 \in DOMAIN _get_provider_configs,
             p2 \in DOMAIN _get_provider_configs,
             m1 \in 0..MaxLen, m2 \in 0..MaxLen, c \in {"", "PNG"} :
            \E o1 \in DictsOfLen(SlotKeys, SlotVals, m1),
               o2 \in DictsOfLen(SlotKeys, SlotVals, m2) :
                call = [fn |-> "cache", provider |-> p1, overrides |-> o1,
                        value |-> Pair(c, "image/png"),
                        provider2 |-> p2, overrides2 |-> o2]
    /\ ret = <<>>

UnitBuild ==
    /\ call.fn = "_build_request_params"
    /\ Len(ret) = 0
    /\ ret' = <<_build_request_params(_get_provider_configs[call.provider],
                                      call.overrides)>>
    /\ UNCHANGED <<ENABLE_PHOTO_CACHE, photo_cache, cache_lock, pc, request,
                   frame, call>>

UnitPre ==
    /\ call.fn = "_lorem_picsum_pre"
    /\ Len(ret) = 0
    /\ ret' = <<_lorem_picsum_pre(_get_provider_configs["lorem_picsum"].api_url,
                                  call.params)>>
    /\ UNCHANGED <<ENABLE_PHOTO_CACHE, photo_cache, cache_lock, pc, request,
                   frame, call>>

UnitStore ==
    /\ call.fn = "cache"
    /\ Len(ret) = 0
    /\ photo_cache' = _store_in_cache(photo_cache, call.provider, call.overrides,
                                      call.value)
    /\ ret' = <<None>>
    /\ UNCHANGED <<ENABLE_PHOTO_CACHE, cache_lock, pc, request, frame, call>>

UnitGet ==
    /\ call.fn = "cache"
    /\ Len(ret) = 1
    /\ ret' = Append(ret, _get_from_cache(photo_cache, call.provider2,
                                          call.overrides2))
    /\ UNCHANGED <<ENABLE_PHOTO_CACHE, photo_cache, cache_lock, pc, request,
                   frame, call>>

\* the pre-hook as fetch_photo calls it for lorem_picsum: on the built params
UnitMerged ==
    /\ call.fn = "picsum_paths"
    /\ Len(ret) = 0
    /\ ret' = <<PreHook(_get_provider_configs["lorem_picsum"],
                        _build_request_params(
                            _get_provider_configs["lorem_picsum"],
                            call.overrides))>>
    /\ UNCHANGED <<ENABLE_PHOTO_CACHE, photo_cache, cache_lock, pc, request,
                   frame, call>>

\* the pre-hook called on the overrides themselves
UnitRaw ==
    /\ call.fn = "picsum_paths"
    /\ Len(ret) = 1
    /\ ret' = Append(ret, PreHook(_get_provider_configs["lorem_picsum"],
                                  call.overrides))
    /\ UNCHANGED <<ENABLE_PHOTO_CACHE, photo_cache, cache_lock, pc, request,
                   frame, call>>

UnitNext ==
    UnitBuild \/ UnitPre \/ UnitStore \/ UnitGet \/ UnitMerged \/ UnitRaw

UnitSpec == UnitInit /\ [][UnitNext]_vars

-----------------------------------------------------------------------------
(* Vocabulary of the properties *)

Registered(provider) == provider \in {"unsplash", "lorem_picsum"}

\* two override mappings hold the same (key, value) pairs
SameMapping(o1, o2) ==
    /\ Keys(o1) = Keys(o2)
    /\ \A k \in Keys(o1) : Get(o1, k, None) = Get(o2, k, None)

\* worker o's fetch_photo call stored its result, and worker w's later call
\* is for the same provider and the same override pairs
StoredBefore(o, w) ==
    /\ o < w
    /\ pc[w] # "idle"
    /\ frame[o].stored
    /\ request[o].provider = request[w].provider
    /\ SameMapping(request[o].overrides, request[w].overrides)

Non2xx(status_code) == status_code < 200 \/ status_code > 299

-----------------------------------------------------------------------------
(* Properties *)

\* C1: with the cache enabled and requests served one after the other, once a
\* fetch_photo call has stored its result, a following call for the same
\* provider and override pairs issues no HTTP GET at all and returns exactly
\* the stored (bytes, MIME type) pair, also when the stored bytes are empty.
C1_HitReturnsStored ==
    \A o \in Workers, w \in Workers :
        StoredBefore(o, w) =>
            /\ Len(frame[w].gets) = 0
            /\ pc[w] \notin {"primary", "secondary", "store", "cache_write"}
            /\ pc[w] = "done" =>
                /\ frame[w].error = ""
                /\ frame[w].value = frame[o].value
                /\ frame[w].status = 200
                /\ frame[w].body = frame[o].value.v[1]
                /\ frame[w].mimetype = frame[o].value.v[2]
                /\ ~frame[w].stored

\* C1 witness: a second identical request is answered from an entry whose
\* image bytes are empty
C1_Witness ==
    \E o \in Workers, w \in Workers :
        /\ StoredBefore(o, w)
        /\ pc[w] = "done"
        /\ frame[o].value = Pair("", "image/jpeg")
        /\ frame[w].value = Pair("", "image/jpeg")
        /\ frame[w].status = 200

\* C2: with the cache toggle off the cache map stays empty and is never
\* read or written (cache_lock is never taken, _get_from_cache yields None,
\* no call stores), and every fetch_photo call for a registered provider
\* performs the primary HTTP GET, a repeat of an earlier request included.
C2_DisabledCacheIsInert ==
    ~ENABLE_PHOTO_CACHE =>
        /\ DOMAIN photo_cache = {}
        /\ cache_lock = NoWorker
        /\ \A w \in Workers :
            /\ pc[w] \notin {"cache_read", "cache_write"}
            /\ frame[w].cached = None
            /\ ~frame[w].stored
            /\ (frame[w].entered /\ Registered(request[w].provider)
                    /\ pc[w] \in {"primary", "secondary", "store", "done"})
                => /\ Len(frame[w].gets) >= 1
                   /\ frame[w].gets[1].url \in
                        {"https://api.unsplash.com/photos/random",
                         "https://picsum.photos/1920/1080"}

\* C2 witness: with the toggle off two identical requests have both fetched
\* from the network and both succeeded
C2_Witness ==
    /\ ~ENABLE_PHOTO_CACHE
    /\ \E o \in Workers, w \in Workers :
        /\ o < w
        /\ request[o] = request[w]
        /\ pc[o] = "done" /\ pc[w] = "done"
        /\ frame[o].status = 200 /\ frame[w].status = 200
        /\ Len(frame[o].gets) >= 1 /\ Len(frame[w].gets) >= 1

\* C3: the cache slot addressed by (provider, overrides) does not depend on
\* the insertion order of the overrides: a value stored under one mapping is
\* found under another exactly when the providers are equal and the two
\* mappings hold the same (key, value) pairs.
C3_KeyIgnoresInsertionOrder ==
    (call.fn = "cache" /\ Len(ret) = 2 /\ ENABLE_PHOTO_CACHE) =>
        /\ (call.provider = call.provider2
                /\ SameMapping(call.overrides, call.overrides2))
            => ret[2] = call.value
        /\ ~(call.provider = call.provider2
                /\ SameMapping(call.overrides, call.overrides2))
            => ret[2] = None

\* C3 witness: a value stored under {a: .., b: ..} is found under the same
\* pairs inserted in the other order
C3_Witness ==
    /\ call.fn = "cache" /\ Len(ret) = 2 /\ ENABLE_PHOTO_CACHE
    /\ Len(call.overrides) = 2
    /\ call.overrides2 = <<call.overrides[2], call.overrides[1]>>
    /\ call.provider = call.provider2
    /\ ret[2] = call.value

\* every entry of the cache was written by a call that went through the store
EntriesAccounted ==
    \A k \in DOMAIN photo_cache :
        \E o \in Workers :
            /\ frame[o].stored
            /\ k = <<request[o].provider, Items(request[o].overrides)>>

\* what the claims conclude of a call that failed with FetchFailed
FetchFailed(w) ==
    /\ pc[w] = "done"
    /\ frame[w].error = "RuntimeError"
    /\ frame[w].status = 502
    /\ frame[w].body = "Failed to fetch photo from " \o request[w].provider
    /\ frame[w].value = None
    /\ ~frame[w].stored
    /\ EntriesAccounted

\* C4 as stated: a primary response with any non-2xx status makes fetch_photo
\* fail with FetchFailed, without the post-hook being invoked and without a
\* cache entry being created.
C4_Non2xxPrimaryFails ==
    \A w \in Workers :
        (frame[w].primary # 0 /\ Non2xx(frame[w].primary)) =>
            /\ FetchFailed(w)
            /\ ~frame[w].post_called

\* C4 amended: a primary response with a 4xx or 5xx status (the statuses
\* raise_for_status raises on) makes fetch_photo fail with FetchFailed, the
\* post-hook is never invoked and no cache entry is created for the key.
C4_ErrorStatusPrimaryFails ==
    \A w \in Workers :
        (400 <= frame[w].primary /\ frame[w].primary <= 599) =>
            /\ FetchFailed(w)
            /\ frame[w].cause = "HTTPError"
            /\ ~frame[w].post_called
            /\ Len(frame[w].gets) = 1

\* C4 witness: a call whose primary response was 404 has failed with 502
C4_Witness ==
    \E w \in Workers :
        /\ frame[w].primary = 404
        /\ pc[w] = "done"
        /\ frame[w].error = "RuntimeError"
        /\ frame[w].status = 502
        /\ ~frame[w].post_called

\* C5 as stated: for unsplash, any non-2xx status of the secondary image GET
\* makes fetch_photo fail with FetchFailed and nothing is stored.
C5_Non2xxSecondaryFails ==
    \A w \in Workers :
        (request[w].provider = "unsplash" /\ frame[w].secondary # 0
                /\ Non2xx(frame[w].secondary))
            => FetchFailed(w)

\* C5 amended: for unsplash, a 4xx or 5xx status of the secondary image GET
\* after a successful primary response makes fetch_photo fail with
\* FetchFailed and nothing is stored for the key.
C5_ErrorStatusSecondaryFails ==
    \A w \in Workers :
        (400 <= frame[w].secondary /\ frame[w].secondary <= 599) =>
            /\ request[w].provider = "unsplash"
            /\ frame[w].primary = 200
            /\ frame[w].post_called
            /\ FetchFailed(w)
            /\ frame[w].cause = "HTTPError"
            /\ Len(frame[w].gets) = 2

\* C5 witness: an unsplash call whose image GET was answered 404 has failed
C5_Witness ==
    \E w \in Workers :
        /\ request[w].provider = "unsplash"
        /\ frame[w].primary = 200
        /\ frame[w].secondary = 404
        /\ pc[w] = "done"
        /\ frame[w].error = "RuntimeError"
        /\ frame[w].status = 502

\* C6: a fetch_photo call fails with ValueError 'Unknown provider' exactly
\* when its provider is not a key of the registry, whatever the overrides.
C6_InvalidProviderIffUnregistered ==
    \A w \in Workers :
        (frame[w].entered /\ pc[w] # "fetch_photo") =>
            /\ frame[w].error = "ValueError" <=> ~Registered(request[w].provider)
            /\ frame[w].error = "ValueError" =>
                /\ pc[w] = "done"
                /\ frame[w].body = "Unknown provider: " \o request[w].provider
                /\ Len(frame[w].gets) = 0

\* C6 witness: a call for an unregistered provider with a non-empty override
\* set has failed with ValueError
C6_Witness ==
    \E w \in Workers :
        /\ frame[w].entered
        /\ pc[w] = "done"
        /\ request[w].provider = "flickr"
        /\ request[w].overrides # EmptyDict
        /\ frame[w].error = "ValueError"
        /\ frame[w].status = 400

\* C7 as stated: for every provider segment and every query mapping, picture
\* answers 200 with the fetched MIME type on success, 400 exactly when the
\* provider is not registered, 502 exactly when a transport-level failure
\* occurred, and 500 'Internal server error' for every other failure.
C7_StatusMapping ==
    \A w \in Workers :
        pc[w] = "done" =>
            /\ frame[w].status \in {200, 400, 500, 502}
            /\ frame[w].status = 200 <=> frame[w].error = ""
            /\ frame[w].status = 200 =>
                /\ frame[w].value # None
                /\ frame[w].body = frame[w].value.v[1]
                /\ frame[w].mimetype = frame[w].value.v[2]
            /\ frame[w].status = 400 <=> ~Registered(request[w].provider)
            /\ frame[w].status = 502 <=>
                    frame[w].cause \in {"ConnectionError", "Timeout", "HTTPError"}
            /\ frame[w].status = 500 => frame[w].body = "Internal server error"

\* C8 as stated: FetchFailed is raised only for a connection error, a timeout
\* or a non-2xx status; every other exception of the miss path propagates
\* unmodified, stores nothing and is answered 500.
C8_OnlyTransportFailuresWrapped ==
    \A w \in Workers :
        pc[w] = "done" =>
            /\ frame[w].error = "RuntimeError" =>
                \/ frame[w].cause \in {"ConnectionError", "Timeout"}
                \/ frame[w].primary # 0 /\ Non2xx(frame[w].primary)
                \/ frame[w].secondary # 0 /\ Non2xx(frame[w].secondary)
            /\ frame[w].cause \notin {"", "ConnectionError", "Timeout", "HTTPError"} =>
                /\ frame[w].error = frame[w].cause
                /\ frame[w].status = 500
                /\ ~frame[w].stored

\* C8 amended: FetchFailed is raised exactly for the requests.RequestException
\* failures of the miss path: connection error, timeout, 4xx/5xx status, and
\* a response body that is not JSON where the post-hook decodes JSON; every
\* other exception (KeyError for a JSON document without urls.full)
\* propagates unmodified, stores nothing and is answered 500.
C8_RequestExceptionsWrapped ==
    \A w \in Workers :
        pc[w] = "done" =>
            /\ frame[w].error = "RuntimeError" <=>
                    frame[w].cause \in {"ConnectionError", "Timeout", "HTTPError",
                                        "JSONDecodeError"}
            /\ frame[w].error = "RuntimeError" => FetchFailed(w)
            /\ frame[w].cause = "HTTPError" <=>
                    \/ 400 <= frame[w].primary /\ frame[w].primary <= 599
                    \/ 400 <= frame[w].secondary /\ frame[w].secondary <= 599
            /\ frame[w].cause \notin {"", "ConnectionError", "Timeout", "HTTPError",
                                      "JSONDecodeError"} =>
                /\ frame[w].cause = "KeyError"
                /\ frame[w].error = "KeyError"
                /\ frame[w].status = 500
                /\ frame[w].body = "Internal server error"
                /\ frame[w].value = None
                /\ ~frame[w].stored
                /\ EntriesAccounted

\* C8 witness: a 200 response whose JSON lacks urls.full has ended in an
\* unwrapped KeyError answered 500
C8_Witness ==
    \E w \in Workers :
        /\ pc[w] = "done"
        /\ frame[w].primary = 200
        /\ frame[w].cause = "KeyError"
        /\ frame[w].error = "KeyError"
        /\ frame[w].status = 500

\* a call of _build_request_params has returned
Built == call.fn = "_build_request_params" /\ Len(ret) = 1

\* the overrides hold a non-empty 'theme'
HasTheme(overrides) ==
    Has(overrides, "theme") /\ Get(overrides, "theme", None) # S("")

\* what C9 says of the defaults, of 'query' and of the keys of the result
BuilderRest(defaults, overrides, params) ==
    /\ \A k \in Keys(defaults) \ Keys(overrides) :
            Has(params, k) /\ Get(params, k, None) = Get(defaults, k, None)
    /\ HasTheme(overrides) =>
            /\ Has(params, "query")
            /\ Get(params, "query", None) = Get(overrides, "theme", None)
    /\ ~HasTheme(overrides) =>
            (Has(params, "query") <=>
                (Has(overrides, "query") \/ Has(defaults, "query")))
    /\ Keys(params) \subseteq Keys(defaults) \cup Keys(overrides) \cup {"query"}
    /\ Cardinality(Keys(params)) = Len(params)

\* C9 as stated: the built map contains every override pair, keeps every
\* default that is not overridden, has 'query' equal to a non-empty 'theme'
\* whatever the other override keys are, and gets no 'query' from the
\* builder when 'theme' is absent or empty.
C9_EveryOverrideKept ==
    Built =>
        LET defaults == _get_provider_configs[call.provider].body_params
            params == ret[1]
        IN  /\ \A k \in Keys(call.overrides) :
                    /\ Has(params, k)
                    /\ Get(params, k, None) = Get(call.overrides, k, None)
            /\ BuilderRest(defaults, call.overrides, params)

\* C9 amended: the built map contains every override pair, except that with
\* a non-empty 'theme' an override of 'query' is replaced by the theme
\* value; it keeps every default of the registry's providers that is not
\* overridden, has 'query' equal to a non-empty 'theme' whatever the other
\* override keys are, and gets no 'query' from the builder when 'theme' is
\* absent or empty.
C9_OverridesKeptButQuery ==
    Built =>
        LET defaults == _get_provider_configs[call.provider].body_params
            params == ret[1]
        IN  /\ \A k \in Keys(call.overrides) :
                    (k # "query" \/ ~HasTheme(call.overrides)) =>
                        /\ Has(params, k)
                        /\ Get(params, k, None) = Get(call.overrides, k, None)
            /\ BuilderRest(defaults, call.overrides, params)

\* C9 witness: overrides with theme 'nature', query 'cats' and a w that
\* collides with a default were built into query 'nature' and the override w
C9_Witness ==
    /\ Built
    /\ Get(call.overrides, "theme", None) = S("nature")
    /\ Get(call.overrides, "query", None) = S("cats")
    /\ Get(call.overrides, "w", None) = S("nature")
    /\ Get(ret[1], "query", None) = S("nature")
    /\ Get(ret[1], "w", None) = S("nature")
    /\ Get(ret[1], "h", None) = I("1080")

\* a call of _lorem_picsum_pre has returned
PreDone == call.fn = "_lorem_picsum_pre" /\ Len(ret) = 1

\* C10: the lorem_picsum pre-hook returns the url .../<w>/<h> (1920 and 1080
\* when absent) with a .webp suffix iff 'webp' is present, and a query map
\* over {grayscale, blur} only: grayscale -> '' iff present in the input,
\* blur -> the input value (or '') iff present; {w:800, h:600, grayscale:''}
\* gives .../800/600 and exactly {grayscale: ''}.
C10_PicsumPreHook ==
    PreDone =>
        LET p == call.params
            url == ret[1].url
            q == ret[1].params
            w == IF Has(p, "w") THEN Get(p, "w", None).v ELSE "1920"
            h == IF Has(p, "h") THEN Get(p, "h", None).v ELSE "1080"
            path == "https://picsum.photos/" \o w \o "/" \o h
        IN  /\ Has(p, "webp") => url = path \o ".webp"
            /\ ~Has(p, "webp") => url = path
            /\ Keys(q) \subseteq {"grayscale", "blur"}
            /\ Cardinality(Keys(q)) = Len(q)
            /\ Has(q, "grayscale") <=> Has(p, "grayscale")
            /\ Has(q, "grayscale") => Get(q, "grayscale", None) = S("")
            /\ Has(q, "blur") <=> Has(p, "blur")
            /\ Has(q, "blur") =>
                /\ Get(q, "blur", None) \in {Get(p, "blur", None), S("")}
                /\ Get(p, "blur", None).t = "str" =>
                        Get(q, "blur", None) = Get(p, "blur", None)
            /\ p = <<<<"w", S("800")>>, <<"h", S("600")>>, <<"grayscale", S("")>>>>
                => /\ url = "https://picsum.photos/800/600"
                   /\ q = <<<<"grayscale", S("")>>>>

\* C10 witness: the hook was applied to {w:800, h:600, grayscale:''}
C10_Witness ==
    /\ PreDone
    /\ call.params = <<<<"w", S("800")>>, <<"h", S("600")>>, <<"grayscale", S("")>>>>
    /\ ret[1].url = "https://picsum.photos/800/600"
    /\ ret[1].params = <<<<"grayscale", S("")>>>>

\* worker w has an HTTP GET of its own in flight
InFlight(w) == pc[w] \in {"primary", "secondary"}

\* C11: in every reachable state of any interleaving of request workers, no
\* worker holds cache_lock while a primary or secondary GET of its own is in
\* flight: a worker holds the lock exactly while it is at the map read of
\* _get_from_cache or the map write of _store_in_cache, and has released it
\* when fetch_photo goes on to the hooks or returns.
C11_LockNotHeldDuringGet ==
    /\ cache_lock \in Workers \cup {NoWorker}
    /\ \A w \in Workers :
        /\ InFlight(w) => cache_lock # w
        /\ cache_lock = w <=> pc[w] \in {"cache_read", "cache_write"}

\* C11 witness: with the cache on, a worker that has read the map has a GET
\* in flight while another worker is inside the locked region
C11_Witness ==
    \E w \in Workers, o \in Workers :
        /\ o # w
        /\ InFlight(w)
        /\ frame[w].read_at >= 0
        /\ cache_lock = o

\* the calls of workers o and w address the same cache key
SameKey(o, w) ==
    /\ request[o].provider = request[w].provider
    /\ SameMapping(request[o].overrides, request[w].overrides)

\* the workers inside a `with cache_lock:` block
InLocked == {w \in Workers : pc[w] \in {"cache_read", "cache_write"}}

\* the map writes to w's key that had completed when w read the map
WritesBefore(w) ==
    {o \in Workers : /\ frame[o].stored
                     /\ SameKey(o, w)
                     /\ frame[o].wrote_at <= frame[w].read_at}

SlotOf(w) == <<request[w].provider, Items(request[w].overrides)>>

\* worker w's call has returned the pair it fetched from the provider itself
ReturnedOwn(w) ==
    /\ pc[w] = "done"
    /\ frame[w].error = ""
    /\ frame[w].value # None
    /\ frame[w].status = 200
    /\ frame[w].body = frame[w].value.v[1]
    /\ frame[w].mimetype = frame[w].value.v[2]

\* worker w's map write is the latest completed write to its key
LastWriter(w) ==
    /\ frame[w].stored
    /\ \A x \in Workers :
            (frame[x].stored /\ SameKey(x, w)) => frame[x].wrote_at <= frame[w].wrote_at

\* C13: with the cache on there is no single-flight deduplication: when two
\* calls for the same provider and overrides have both written the key, both
\* had missed the cache and both performed the provider GET, the cache holds
\* the value of the write that happened last, and each caller got back the
\* pair it fetched itself.
C13_LastWriteWins ==
    \A o \in Workers, w \in Workers :
        (frame[o].stored /\ frame[w].stored
                /\ frame[o].wrote_at < frame[w].wrote_at /\ SameKey(o, w))
            => /\ ENABLE_PHOTO_CACHE
               /\ frame[o].cached = None /\ frame[w].cached = None
               /\ frame[w].read_at < frame[o].wrote_at
               /\ Len(frame[o].gets) >= 1 /\ Len(frame[w].gets) >= 1
               /\ frame[o].primary \in {200, 304}
               /\ frame[w].primary \in {200, 304}
               /\ SlotOf(w) \in DOMAIN photo_cache
               /\ LastWriter(w) => photo_cache[SlotOf(w)] = frame[w].value
               /\ photo_cache[SlotOf(w)] # frame[w].value =>
                    \E x \in Workers :
                        /\ SameKey(x, w) /\ LastWriter(x)
                        /\ photo_cache[SlotOf(w)] = frame[x].value
               /\ ReturnedOwn(o) /\ ReturnedOwn(w)

\* C13 witness: two concurrent identical requests both missed, both fetched
\* and both wrote; the first got an image, the second an empty body, the
\* cache holds the second's pair, and each was answered with its own
C13_Witness ==
    \E o \in Workers, w \in Workers :
        /\ SameKey(o, w)
        /\ frame[o].stored /\ frame[w].stored
        /\ frame[o].wrote_at < frame[w].wrote_at
        /\ frame[o].value = Pair("PNG", "image/png")
        /\ frame[w].value = Pair("", "image/jpeg")
        /\ photo_cache[SlotOf(w)] = Pair("", "image/jpeg")
        /\ frame[o].body = "PNG" /\ frame[w].body = ""
        /\ pc[o] = "done" /\ pc[w] = "done"

\* worker w's map write is the step being taken
Writes(w) == pc[w] = "cache_write" /\ pc'[w] = "done"

\* worker w read the map before any write to its key had completed
ReadBeforeWrites(w) ==
    \A o \in Workers :
        (frame[o].stored /\ SameKey(o, w)) => frame[w].read_at < frame[o].wrote_at

\* C14 as stated: a cache entry is immutable once stored: in every execution,
\* interleavings of concurrent requests for the same key with differing
\* provider responses included, a key of the cache maps to the same value in
\* every later state.
C14_ImmutableOnceStored ==
    [][\A k \in DOMAIN photo_cache :
          /\ k \in DOMAIN photo_cache'
          /\ photo_cache'[k] = photo_cache[k]]_vars

\* C14 amended: a cache entry stays in the cache, and its value is replaced
\* only by the write of a call for the same key that had read the cache as
\* absent before any write to the key completed, i.e. a miss that raced the
\* first writer; a call whose cache read follows a completed write to its
\* key never changes the entry.
C14_ReplacedOnlyByRacingMiss ==
    [][\A k \in DOMAIN photo_cache :
          /\ k \in DOMAIN photo_cache'
          /\ photo_cache'[k] # photo_cache[k] =>
                \E w \in Workers :
                    /\ Writes(w)
                    /\ SlotOf(w) = k
                    /\ frame[w].cached = None
                    /\ ReadBeforeWrites(w)
                    /\ photo_cache'[k] = frame[w].value]_vars

\* C14 witness: an entry stored by one call has been replaced with a different
\* value by a racing call for the same key
C14_Witness ==
    \E o \in Workers, w \in Workers :
        /\ SameKey(o, w)
        /\ frame[o].stored /\ frame[w].stored
        /\ frame[o].wrote_at < frame[w].wrote_at
        /\ frame[w].read_at < frame[o].wrote_at
        /\ frame[o].value # frame[w].value
        /\ photo_cache[SlotOf(o)] # frame[o].value

\* C15: cache entries are never evicted: across every sequence and
\* interleaving of fetch_photo calls (successful, failing, hits and misses)
\* the set of keys present in the cache only grows; no step removes a key.
C15_NeverEvicted ==
    [][DOMAIN photo_cache \subseteq DOMAIN photo_cache']_vars

\* C15 witness: two calls for different keys have stored and returned, and
\* the cache holds both entries
C15_Witness ==
    \E o \in Workers, w \in Workers :
        /\ o < w
        /\ ~SameKey(o, w)
        /\ frame[o].stored /\ frame[w].stored
        /\ pc[o] = "done" /\ pc[w] = "done"
        /\ {SlotOf(o), SlotOf(w)} \subseteq DOMAIN photo_cache
        /\ Cardinality(DOMAIN photo_cache) = 2

\* worker w's call missed the cache and has called the provider's pre-hook
PreHookCalled(w) == frame[w].pre_arg # None

Wire(params) == {<<p[1], Fmt(p[2])>> : p \in Items(params)}

\* two calls' merged parameters are the same once encoded
SameMerged(o, w) == Wire(frame[o].params) = Wire(frame[w].params)

\* worker o's call stored its result before worker w's call began, for the
\* same provider but with other raw overrides
StoredOtherOverrides(o, w) ==
    /\ o < w
    /\ frame[o].stored
    /\ request[o].provider = request[w].provider
    /\ ~SameMapping(request[o].overrides, request[w].overrides)

\* no call before worker w's stored a result for w's key
FirstForKey(w) ==
    \A x \in Workers : (x < w /\ frame[x].stored) => ~SameKey(x, w)

\* C17: the cache key is formed from the raw overrides, not from the merged
\* parameters: with the cache on, a request that passes an override equal to
\* a provider default (w=1920) and a request without it occupy different
\* cache slots although their merged parameters are the same, so the later
\* one, when nothing was stored for its own key, misses and performs network
\* I/O; every key of the cache is the provider with the raw override pairs
\* of a call that stored.
C17_KeyFromRawOverrides ==
    /\ EntriesAccounted
    /\ \A o \in Workers, w \in Workers :
        (StoredOtherOverrides(o, w) /\ FirstForKey(w) /\ frame[w].entered
                /\ pc[w] \in {"primary", "secondary", "store", "cache_write", "done"})
            => /\ SameMerged(o, w)
               /\ frame[w].read_at = 0
               /\ frame[w].cached = None
               /\ Len(frame[w].gets) >= 1
               /\ frame[w].gets[1].url = frame[o].gets[1].url
               /\ Wire(frame[w].gets[1].params) = Wire(frame[o].gets[1].params)
               /\ frame[w].stored =>
                    /\ Cardinality(DOMAIN photo_cache) >= 2
                    /\ photo_cache[<<request[o].provider,
                                     Items(request[o].overrides)>>] = frame[o].value
                    /\ photo_cache[<<request[w].provider,
                                     Items(request[w].overrides)>>] = frame[w].value

\* C17 witness: after a request without overrides was stored, the request
\* with w=1920 for the same provider missed, fetched an image of its own and
\* was stored in a second slot
C17_Witness ==
    \E o \in Workers, w \in Workers :
        /\ StoredOtherOverrides(o, w)
        /\ request[o].overrides = EmptyDict
        /\ request[w].overrides = <<<<"w", S("1920")>>>>
        /\ SameMerged(o, w)
        /\ frame[w].stored
        /\ pc[w] = "done"
        /\ frame[o].value # frame[w].value
        /\ Cardinality(DOMAIN photo_cache) = 2

\* worker w's call has ended with a complete (bytes, MIME type) pair
CompletePair(w) ==
    /\ frame[w].error = ""
    /\ frame[w].value # None
    /\ Len(frame[w].value.v) = 2
    /\ frame[w].status = 200
    /\ frame[w].body = frame[w].value.v[1]
    /\ frame[w].mimetype = frame[w].value.v[2]
    /\ frame[w].mimetype # ""

\* worker w's call has ended with an error and no result
ErrorOnly(w) ==
    /\ frame[w].error # ""
    /\ frame[w].value = None
    /\ frame[w].status \in {400, 500, 502}
    /\ ~frame[w].stored

AllDone == \A w \in Workers : pc[w] = "done"

\* C18: under fair scheduling, with every HTTP call ending in a response or
\* a timeout, every call that has begun eventually finishes, for any number
\* of concurrent workers; it ends with either a complete (bytes, MIME type)
\* pair or an error, never a partial result; a worker waiting for cache_lock
\* eventually gets it, the lock is free whenever no worker is at a map
\* operation, and the system never stops before every request is answered.
C18_EveryCallFinishes ==
    /\ \A w \in Workers : (pc[w] # "idle") ~> (pc[w] = "done")
    /\ \A w \in Workers : (pc[w] = "get_cache") ~> (pc[w] = "dispatch")
    /\ \A w \in Workers :
            (pc[w] = "store" /\ ENABLE_PHOTO_CACHE) ~> (frame[w].stored)
    /\ [](\A w \in Workers :
            pc[w] = "done" => (CompletePair(w) \/ ErrorOnly(w)))
    /\ []((InLocked = {}) => cache_lock = NoWorker)
    /\ [](AllDone \/ ENABLED Next)

\* C18 witness: every request has been answered and the lock is free, after
\* one call waited for the lock and stored its pair and another ended in a
\* timeout
C18_Witness ==
    /\ AllDone
    /\ cache_lock = NoWorker
    /\ \E o \in Workers, w \in Workers :
        /\ frame[o].stored /\ CompletePair(o)
        /\ frame[w].cause = "Timeout" /\ ErrorOnly(w)
        /\ frame[w].read_at >= 0

\* C19: provider lookup precedes every cache and network step: a fetch_photo
\* call for an unregistered provider performs no cache read, no cache write
\* and no HTTP GET and never takes cache_lock, so in every reachable state
\* the provider component of every cache key is a registered provider.
C19_LookupPrecedesCacheAndNetwork ==
    /\ \A w \in Workers :
        (frame[w].entered /\ ~Registered(request[w].provider)) =>
            /\ pc[w] \in {"fetch_photo", "done"}
            /\ cache_lock # w
            /\ frame[w].read_at = -1
            /\ frame[w].cached = None
            /\ frame[w].pre_arg = None
            /\ Len(frame[w].gets) = 0
            /\ frame[w].primary = 0 /\ frame[w].secondary = 0
            /\ ~frame[w].stored
            /\ pc[w] = "done" => frame[w].error = "ValueError"
    /\ \A k \in DOMAIN photo_cache : Registered(k[1])

\* C19 witness: with an entry in the cache, a call for the unregistered
\* provider flickr has ended in ValueError without touching cache or network
C19_Witness ==
    \E o \in Workers, w \in Workers :
        /\ frame[o].stored
        /\ SlotOf(o) \in DOMAIN photo_cache
        /\ frame[w].entered
        /\ request[w].provider = "flickr"
        /\ request[w].overrides = <<<<"w", S("1920")>>>>
        /\ pc[w] = "done"
        /\ frame[w].error = "ValueError"
        /\ frame[w].read_at = -1
        /\ Len(frame[w].gets) = 0

\* the lorem_picsum pre-hook has been run on the built params and on the raw
\* overrides of one override set
BothPaths == call.fn = "picsum_paths" /\ Len(ret) = 2

\* C20: for lorem_picsum, feeding the pre-hook the builder's merged params
\* (the defaults w=1920, h=1080, the overrides and the theme-derived
\* 'query') yields, for every override set, exactly the same final url and
\* query map as feeding it the raw overrides alone.
C20_MergedAndRawPathsAgree ==
    BothPaths =>
        /\ ret[1].url = ret[2].url
        /\ ret[1].params = ret[2].params

\* C20 witness: for overrides with a theme, w=800, blur and no h, where the
\* merged params hold 'query' and the default h that the overrides lack,
\* both paths gave .../800/1080 and the same query map
C20_Witness ==
    /\ BothPaths
    /\ Keys(call.overrides) = {"theme", "w", "blur"}
    /\ Get(call.overrides, "w", None) = S("800")
    /\ Get(call.overrides, "theme", None) = S("600")
    /\ Get(call.overrides, "blur", None) = I("0")
    /\ ret[1].url = "https://picsum.photos/800/1080"
    /\ ret[2].url = "https://picsum.photos/800/1080"
    /\ ret[1].params = <<<<"blur", S("")>>>>
    /\ ret[2].params = <<<<"blur", S("")>>>>

====
